---- MODULE Spec2Model ----
(***************************************************************************)
(* A model of plugins/weather.py: the per-user location cache backed by    *)
(* the "weather" table, the geocode / weather-fetch pipeline of            *)
(* get_weather_data, and the two commands weather and meteo.               *)
(*                                                                         *)
(* Python str values are TLA+ strings (TLC evaluates Len, Head, Tail,      *)
(* SubSeq and \o on them character by character).  Python values whose     *)
(* type varies (None / str / dict) are tagged records.                     *)
(***************************************************************************)
EXTENDS FiniteSets, Integers, Sequences, TLC

(* ------------------------------------------------------------------ *)
(* Bounds and input alphabets                                          *)
(* ------------------------------------------------------------------ *)

\* longest geocode status outside the documented ones
MaxStatusLen == 2

\* callers: two casings of one nick and a second user
Nicks == {"al", "Al", "bo"}

(* ------------------------------------------------------------------ *)
(* Python values                                                       *)
(* ------------------------------------------------------------------ *)

None == [t |-> "None"]

Str(s) == [t |-> "str", s |-> s]

Dict(d) == [t |-> "dict", d |-> d]

\* bool(x): None and '' are false, every dict built here is non-empty
Truthy(x) == CASE x.t = "None" -> FALSE
               [] x.t = "str" -> x.s # ""
               [] x.t = "dict" -> TRUE
               [] OTHER -> FALSE

(* ------------------------------------------------------------------ *)
(* String functions                                                    *)
(* ------------------------------------------------------------------ *)

UpperLetters == "ABCDEFGHIJKLMNOPQRSTUVWXYZ"

LowerLetters == "abcdefghijklmnopqrstuvwxyz"

\* str.lower() on the upper-case ASCII letters, as a table
LowerOf ==
    [c \in {SubSeq(UpperLetters, i, i) : i \in 1..Len(UpperLetters)} |->
        LET i == CHOOSE j \in 1..Len(UpperLetters) : SubSeq(UpperLetters, j, j) = c
        IN SubSeq(LowerLetters, i, i)]

\* str.lower() on one character (ASCII letters; every other character
\* used in the model is unchanged by lower())
lower_char(c) == IF c \in DOMAIN LowerOf THEN LowerOf[c] ELSE c

RECURSIVE lower(_)
\* str.lower()
lower(s) == IF s = "" THEN "" ELSE lower_char(Head(s)) \o lower(Tail(s))

\* the Python test  sub in s
Contains(s, sub) ==
    \E i \in 1..(Len(s) - Len(sub) + 1) : SubSeq(s, i, i + Len(sub) - 1) = sub

RECURSIVE StringsUpTo(_, _)
\* all strings over chars of length at most n
StringsUpTo(chars, n) ==
    IF n = 0 THEN {""}
    ELSE LET shorter == StringsUpTo(chars, n - 1)
         IN shorter \cup {s \o c : s \in shorter, c \in chars}

(* ------------------------------------------------------------------ *)
(* The durable table and the in-memory cache                           *)
(* ------------------------------------------------------------------ *)

\* a table / dict with no rows
EmptyTable == [n \in {} |-> ""]

\* as load_cache, but forgetting to copy the rows
load_cache_noop(cache, rows) == cache

\* load_cache: assigns every selected row into the dict; keys of the dict
\* that are not among the rows are left as they are
load_cache(cache, rows) ==
    [n \in DOMAIN cache \cup DOMAIN rows |->
        IF n \in DOMAIN rows THEN rows[n] ELSE cache[n]]

\* as set_statement, but keeping the location as typed
set_statement_keepcase(cache, nick, location) ==
    IF lower(nick) \in DOMAIN cache
    THEN [op |-> "update", nick |-> lower(nick), loc |-> location]
    ELSE [op |-> "insert", nick |-> lower(nick), loc |-> location]

\* as set_statement, but looking in the cache for the nick as given
set_statement_rawnick(cache, nick, location) ==
    IF nick \in DOMAIN cache
    THEN [op |-> "update", nick |-> lower(nick), loc |-> lower(location)]
    ELSE [op |-> "insert", nick |-> lower(nick), loc |-> lower(location)]

\* set_location, lines 102-106: lower-case both, choose update or insert
\* by looking in the cache
set_statement(cache, nick, location) ==
    IF lower(nick) \in DOMAIN cache
    THEN [op |-> "update", nick |-> lower(nick), loc |-> lower(location)]
    ELSE [op |-> "insert", nick |-> lower(nick), loc |-> lower(location)]

\* as execute, but with an update that has lost its where clause
execute_update_all(tbl, st) ==
    IF st.op = "insert"
    THEN IF st.nick \in DOMAIN tbl
         THEN [ok |-> FALSE, tbl |-> tbl]
         ELSE [ok |-> TRUE,
               tbl |-> [n \in DOMAIN tbl \cup {st.nick} |->
                             IF n = st.nick THEN st.loc ELSE tbl[n]]]
    ELSE [ok |-> TRUE, tbl |-> [n \in DOMAIN tbl |-> st.loc]]

\* db.execute(statement); db.commit() against a table whose primary key is
\* nick: an insert of an existing key is refused, an update rewrites the
\* rows whose nick matches (possibly none)
execute(tbl, st) ==
    IF st.op = "insert"
    THEN IF st.nick \in DOMAIN tbl
         THEN [ok |-> FALSE, tbl |-> tbl]
         ELSE [ok |-> TRUE,
               tbl |-> [n \in DOMAIN tbl \cup {st.nick} |->
                             IF n = st.nick THEN st.loc ELSE tbl[n]]]
    ELSE [ok |-> TRUE,
          tbl |-> [n \in DOMAIN tbl |->
                        IF n = st.nick THEN st.loc ELSE tbl[n]]]

\* set_location: statement, execute + commit, then load_cache
set_location(cache, tbl, nick, location) ==
    LET st == set_statement(cache, nick, location)
        r == execute(tbl, st)
    IN IF r.ok
       THEN [exc |-> "", op |-> st.op, tbl |-> r.tbl,
             cache |-> load_cache(cache, r.tbl)]
       ELSE [exc |-> "IntegrityError", op |-> st.op, tbl |-> tbl,
             cache |-> cache]

\* as get_location, but looking the nick up as typed
get_location_exact(cache, nick) ==
    IF nick \in DOMAIN cache THEN Str(cache[nick]) ELSE None

\* as get_location, but with '' as the default of the lookup
get_location_empty_default(cache, nick) ==
    IF lower(nick) \in DOMAIN cache THEN Str(cache[lower(nick)]) ELSE Str("")

\* get_location: location_cache.get(nick.lower(), None)
get_location(cache, nick) ==
    IF lower(nick) \in DOMAIN cache THEN Str(cache[lower(nick)]) ELSE None

(* ------------------------------------------------------------------ *)
(* repr() and the two error classes                                    *)
(* ------------------------------------------------------------------ *)

\* the quote repr() puts around a str: double quotes only when the text
\* has a single quote and no double quote
repr_quote(s) == IF Contains(s, "'") /\ ~Contains(s, "\"") THEN "\"" ELSE "'"

\* the characters of the statuses tried here that str.isprintable()
\* rejects, other than newline, tab and carriage return: form feed
\* (U+000C) and no-break space (U+00A0)
Unprintable == {"\f", " "}

\* the escape repr() writes for such a character: \xhh below U+0100
hex_escape(c) == IF c = "\f" THEN "\\x0c" ELSE "\\xa0"

\* repr() of one character inside quotes q: a backslash, the enclosing
\* quote and every character that is not printable are written as
\* escapes, a printable character is copied
repr_char(c, q) ==
    CASE c = "\\" -> "\\\\"
      [] c = q -> "\\" \o q
      [] c = "\n" -> "\\n"
      [] c = "\t" -> "\\t"
      [] c = "\r" -> "\\r"
      [] c \in Unprintable -> hex_escape(c)
      [] OTHER -> c

RECURSIVE repr_body(_, _)
repr_body(s, q) ==
    IF s = "" THEN "" ELSE repr_char(Head(s), q) \o repr_body(Tail(s), q)

\* repr(s) for a str s of printable characters, backslashes, quotes,
\* newlines, tabs, carriage returns, form feeds and no-break spaces
repr(s) == repr_quote(s) \o repr_body(s, repr_quote(s)) \o repr_quote(s)

\* GeocodeAPIError.__str__
GeocodeAPIError_str(status) ==
    CASE status = "REQUEST_DENIED" -> "The geocode API is off in the Google Developers Console."
      [] status = "ZERO_RESULTS" -> "No results found."
      [] status = "OVER_QUERY_LIMIT" -> "The geocode API quota has run out."
      [] status = "UNKNOWN_ERROR" -> "Unknown Error."
      [] status = "INVALID_REQUEST" -> "Invalid Request."
      [] OTHER -> repr(status)

\* GeocodeAPIError.en_francais
GeocodeAPIError_en_francais(status) ==
    CASE status = "REQUEST_DENIED" -> "L'API de géocodage est désactivée dans la console des développeurs Google."
      [] status = "ZERO_RESULTS" -> "Aucun resultat n'a été trouvé."
      [] status = "OVER_QUERY_LIMIT" -> "Le quota de API de géocodage est épuisé."
      [] status = "UNKNOWN_ERROR" -> "Quelque chose a mal tourné."
      [] status = "INVALID_REQUEST" -> "Il y a eu une demande invalide."
      [] OTHER -> "La France a été trahie! " \o repr(status)

\* APIKeyMissing.__str__
APIKeyMissing_str(name) == "This command requires a " \o name \o " API key."

\* APIKeyMissing.en_francais
APIKeyMissing_en_francais(name) == "Cette commande nécessite une clé API " \o name \o "."

(* ------------------------------------------------------------------ *)
(* Outcomes of a call                                                  *)
(* ------------------------------------------------------------------ *)

Return(v) == [t |-> "return", v |-> v]

Raise(exc, arg) == [t |-> "raise", exc |-> exc, arg |-> arg]

\* what a call leaves behind: its outcome, the external calls it made in
\* order, and the cache and table after it
Done(out, trace, cache, tbl) ==
    [out |-> out, trace |-> trace, cache |-> cache, tbl |-> tbl]

(* ------------------------------------------------------------------ *)
(* find_location                                                       *)
(* ------------------------------------------------------------------ *)

\* as find_location, but without the test of the status
find_location_any_status(location, key, geo) ==
    LET request == <<[ev |-> "geocode", address |-> location, key |-> key]>>
    IN IF geo.transport # "ok"
       THEN [out |-> Raise("HTTPError", ""), trace |-> request]
       ELSE [out |-> Return([lat |-> geo.lat, lng |-> geo.lng]), trace |-> request]

\* as find_location, but asking a second time after a transport failure
find_location_retry(location, key, geo) ==
    LET request == <<[ev |-> "geocode", address |-> location, key |-> key]>>
    IN IF geo.transport # "ok"
       THEN [out |-> Raise("HTTPError", ""), trace |-> request \o request]
       ELSE IF geo.status # "OK"
            THEN [out |-> Raise("GeocodeAPIError", geo.status), trace |-> request]
            ELSE [out |-> Return([lat |-> geo.lat, lng |-> geo.lng]), trace |-> request]

\* find_location: one GET to the geocode API (bias is None, so no region
\* parameter); raise_for_status, then the status test
find_location(location, key, geo) ==
    LET request == <<[ev |-> "geocode", address |-> location, key |-> key]>>
    IN IF geo.transport # "ok"
       THEN [out |-> Raise("HTTPError", ""), trace |-> request]
       ELSE IF geo.status # "OK"
            THEN [out |-> Raise("GeocodeAPIError", geo.status), trace |-> request]
            ELSE [out |-> Return([lat |-> geo.lat, lng |-> geo.lng]), trace |-> request]

(* ------------------------------------------------------------------ *)
(* get_weather_data                                                    *)
(* ------------------------------------------------------------------ *)

UnableToRetrieve == "Unable to retrieve forecast data."

\* lines 185-215: the flat record built from the current observation and
\* the first two forecast days
weather_fields(response) ==
    LET forecast == response.forecast
        forecast_today == forecast[1]
        forecast_tomorrow == forecast[2]
        current_observation == response.current_observation
    IN [place |-> current_observation.display_location.full,
        conditions |-> current_observation.weather,
        temp_f |-> current_observation.temp_f,
        temp_c |-> current_observation.temp_c,
        humidity |-> current_observation.relative_humidity,
        wind_kph |-> current_observation.wind_kph,
        wind_mph |-> current_observation.wind_mph,
        wind_direction |-> current_observation.wind_dir,
        today_conditions |-> forecast_today.conditions,
        today_high_f |-> forecast_today.high.fahrenheit,
        today_high_c |-> forecast_today.high.celsius,
        today_low_f |-> forecast_today.low.fahrenheit,
        today_low_c |-> forecast_today.low.celsius,
        tomorrow_conditions |-> forecast_tomorrow.conditions,
        tomorrow_high_f |-> forecast_tomorrow.high.fahrenheit,
        tomorrow_high_c |-> forecast_tomorrow.high.celsius,
        tomorrow_low_f |-> forecast_tomorrow.low.fahrenheit,
        tomorrow_low_c |-> forecast_tomorrow.low.celsius]

\* lines 177-215: the error object first, then the empty forecast list,
\* then forecast[0] and forecast[1]
parse_response(response) ==
    IF Truthy(response.error)
    THEN Return(Str(response.error.d.description))
    ELSE IF Len(response.forecast) = 0
         THEN Return(Str(UnableToRetrieve))
         ELSE IF Len(response.forecast) < 2
              THEN Raise("IndexError", "")
              ELSE Return(Dict(weather_fields(response)))

QueryMarker == "?query=,"

\* as select_url, but looking for the marker without its comma
select_url_loose(current_observation) ==
    IF Contains(current_observation.ob_url, "?query=")
    THEN current_observation.forecast_url
    ELSE current_observation.ob_url

\* lines 218-222
select_url(current_observation) ==
    IF Contains(current_observation.ob_url, QueryMarker)
    THEN current_observation.forecast_url
    ELSE current_observation.ob_url

\* web.try_shorten: the shortened URL, or the URL itself when the
\* shortening service fails
try_shorten(url, sh) == IF Truthy(sh) THEN sh.s ELSE url

\* as after_fetch, but saving the typed location as soon as the response
\* has arrived
after_fetch_save_first(text, nick, location, response, sh, cache, tbl, trace) ==
    LET parsed == parse_response(response)
        w == set_location(cache, tbl, nick, location)
        saved == text # ""
        c1 == IF saved THEN w.cache ELSE cache
        t1 == IF saved THEN w.tbl ELSE tbl
        tr1 == IF saved
               THEN trace \o <<[ev |-> "set_location", nick |-> nick,
                                location |-> location, op |-> w.op]>>
               ELSE trace
    IN IF parsed.t = "raise" \/ parsed.v.t # "dict"
       THEN Done(parsed, tr1, c1, t1)
       ELSE LET url == select_url(response.current_observation)
                weather_data == parsed.v.d @@ ("url" :> try_shorten(url, sh))
            IN Done(Return(Dict(weather_data)),
                    tr1 \o <<[ev |-> "shorten", url |-> url]>>, c1, t1)

\* lines 175-229: parse the response; on a full record choose and shorten
\* the URL, then save the location when text was typed
after_fetch(text, nick, location, response, sh, cache, tbl, trace) ==
    LET parsed == parse_response(response)
    IN IF parsed.t = "raise" \/ parsed.v.t # "dict"
       THEN Done(parsed, trace, cache, tbl)
       ELSE LET url == select_url(response.current_observation)
                weather_data == parsed.v.d @@ ("url" :> try_shorten(url, sh))
                tr == trace \o <<[ev |-> "shorten", url |-> url]>>
            IN IF text # ""
               THEN LET w == set_location(cache, tbl, nick, location)
                        trs == tr \o <<[ev |-> "set_location", nick |-> nick,
                                        location |-> location, op |-> w.op]>>
                    IN IF w.exc # ""
                       THEN Done(Raise(w.exc, ""), trs, w.cache, w.tbl)
                       ELSE Done(Return(Dict(weather_data)), trs, w.cache, w.tbl)
               ELSE Done(Return(Dict(weather_data)), tr, cache, tbl)

\* lines 166-173: geocode, format the coordinates, one GET to the weather
\* API, raise_for_status
after_resolve(text, nick, location, language, geo, wx, sh, cache, tbl, dk, wk, trace) ==
    LET g == find_location(location, dk.s, geo)
    IN IF g.out.t = "raise"
       THEN Done(g.out, trace \o g.trace, cache, tbl)
       ELSE LET formatted_location == g.out.v.lat \o "," \o g.out.v.lng
                request == <<[ev |-> "weather", key |-> wk.s, lang |-> language,
                              q |-> formatted_location]>>
            IN IF wx.transport # "ok"
               THEN Done(Raise("HTTPError", ""), trace \o g.trace \o request,
                         cache, tbl)
               ELSE after_fetch(text, nick, location, wx, sh, cache, tbl,
                                trace \o g.trace \o request)

\* as check_keys, but with the two provider names exchanged
check_keys_swapped(dk, wk) ==
    IF ~Truthy(wk) THEN "Google Developers Console"
    ELSE IF ~Truthy(dk) THEN "Weather Underground"
    ELSE ""

\* lines 152-155: the name APIKeyMissing is raised with, "" when both keys
\* are set
check_keys(dk, wk) ==
    IF ~Truthy(wk) THEN "Weather Underground"
    ELSE IF ~Truthy(dk) THEN "Google Developers Console"
    ELSE ""

\* as get_weather_data, but without the return after notice_doc()
get_weather_data_no_return(text, nick, language, geo, wx, sh, cache, tbl, dk, wk) ==
    IF check_keys(dk, wk) # ""
    THEN Done(Raise("APIKeyMissing", check_keys(dk, wk)), <<>>, cache, tbl)
    ELSE IF text = ""
         THEN LET location == get_location(cache, nick)
                  looked == <<[ev |-> "get_location", nick |-> nick]>>
              IN IF ~Truthy(location)
                 THEN after_resolve(text, nick, "", language, geo, wx, sh,
                                    cache, tbl, dk, wk,
                                    looked \o <<[ev |-> "notice_doc"]>>)
                 ELSE after_resolve(text, nick, location.s, language, geo, wx, sh,
                                    cache, tbl, dk, wk, looked)
         ELSE after_resolve(text, nick, text, language, geo, wx, sh,
                            cache, tbl, dk, wk, <<>>)

\* get_weather_data
get_weather_data(text, nick, language, geo, wx, sh, cache, tbl, dk, wk) ==
    IF check_keys(dk, wk) # ""
    THEN Done(Raise("APIKeyMissing", check_keys(dk, wk)), <<>>, cache, tbl)
    ELSE IF text = ""
         THEN LET location == get_location(cache, nick)
                  looked == <<[ev |-> "get_location", nick |-> nick]>>
              IN IF ~Truthy(location)
                 THEN Done(Return(None), looked \o <<[ev |-> "notice_doc"]>>,
                           cache, tbl)
                 ELSE after_resolve(text, nick, location.s, language, geo, wx, sh,
                                    cache, tbl, dk, wk, looked)
         ELSE after_resolve(text, nick, text, language, geo, wx, sh,
                            cache, tbl, dk, wk, <<>>)

(* ------------------------------------------------------------------ *)
(* The two commands                                                    *)
(* ------------------------------------------------------------------ *)

\* str(e) for the two exception classes the commands catch
exception_str(e) ==
    IF e.exc = "APIKeyMissing" THEN APIKeyMissing_str(e.arg)
    ELSE GeocodeAPIError_str(e.arg)

\* e.en_francais() for the two exception classes the commands catch
exception_en_francais(e) ==
    IF e.exc = "APIKeyMissing" THEN APIKeyMissing_en_francais(e.arg)
    ELSE GeocodeAPIError_en_francais(e.arg)

CaughtExceptions == {"APIKeyMissing", "GeocodeAPIError"}

\* what a command leaves behind: Done plus what get_weather_data gave it
Commanded(r, out, trace) ==
    [out |-> out, trace |-> trace, cache |-> r.cache, tbl |-> r.tbl, gwd |-> r.out]

\* as weather_result, but catching every exception
weather_result_catch_all(r) ==
    IF r.out.t = "raise"
    THEN IF r.out.exc \in CaughtExceptions
         THEN Commanded(r, Return(Str(exception_str(r.out))), r.trace)
         ELSE Commanded(r, Return(Str(r.out.exc)), r.trace)
    ELSE IF r.out.v.t # "dict"
         THEN Commanded(r, Return(r.out.v), r.trace)
         ELSE Commanded(r, Return(None),
                        r.trace \o <<[ev |-> "reply", lang |-> "EN", data |-> r.out.v]>>)

\* weather, lines 243-255: what the command does with the outcome r of
\* get_weather_data
weather_result(r) ==
    IF r.out.t = "raise"
    THEN IF r.out.exc \in CaughtExceptions
         THEN Commanded(r, Return(Str(exception_str(r.out))), r.trace)
         ELSE Commanded(r, r.out, r.trace)
    ELSE IF r.out.v.t # "dict"
         THEN Commanded(r, Return(r.out.v), r.trace)
         ELSE Commanded(r, Return(None),
                        r.trace \o <<[ev |-> "reply", lang |-> "EN", data |-> r.out.v]>>)

\* as weather, but catching every exception
weather_catch_all(text, nick, geo, wx, sh, cache, tbl, dk, wk) ==
    weather_result_catch_all(
        get_weather_data(text, nick, "EN", geo, wx, sh, cache, tbl, dk, wk))

\* the command weather
weather(text, nick, geo, wx, sh, cache, tbl, dk, wk) ==
    weather_result(
        get_weather_data(text, nick, "EN", geo, wx, sh, cache, tbl, dk, wk))

ImpossibleDeRecuperer == "Impossible de récupérer les données météorologiques."

\* as meteo_result, but without the translation of the forecast message
meteo_result_untranslated(r) ==
    IF r.out.t = "raise"
    THEN IF r.out.exc \in CaughtExceptions
         THEN Commanded(r, Return(Str(exception_en_francais(r.out))), r.trace)
         ELSE Commanded(r, r.out, r.trace)
    ELSE IF r.out.v.t # "dict"
         THEN Commanded(r, Return(r.out.v), r.trace)
         ELSE Commanded(r, Return(None),
                        r.trace \o <<[ev |-> "reply", lang |-> "FR", data |-> r.out.v]>>)

\* meteo, lines 269-284: what the command does with the outcome r of
\* get_weather_data
meteo_result(r) ==
    IF r.out.t = "raise"
    THEN IF r.out.exc \in CaughtExceptions
         THEN Commanded(r, Return(Str(exception_en_francais(r.out))), r.trace)
         ELSE Commanded(r, r.out, r.trace)
    ELSE IF r.out.v.t # "dict"
         THEN IF r.out.v.t = "str" /\ r.out.v.s = UnableToRetrieve
              THEN Commanded(r, Return(Str(ImpossibleDeRecuperer)), r.trace)
              ELSE Commanded(r, Return(r.out.v), r.trace)
         ELSE Commanded(r, Return(None),
                        r.trace \o <<[ev |-> "reply", lang |-> "FR", data |-> r.out.v]>>)

\* as meteo, but without the translation of the forecast message
meteo_untranslated(text, nick, geo, wx, sh, cache, tbl, dk, wk) ==
    meteo_result_untranslated(
        get_weather_data(text, nick, "FR", geo, wx, sh, cache, tbl, dk, wk))

\* the command meteo
meteo(text, nick, geo, wx, sh, cache, tbl, dk, wk) ==
    meteo_result(
        get_weather_data(text, nick, "FR", geo, wx, sh, cache, tbl, dk, wk))

(* ------------------------------------------------------------------ *)
(* What the outside world can answer                                   *)
(* ------------------------------------------------------------------ *)

\* most days the weather API is given in a forecast list
MaxForecastDays == 3

KnownStatuses == {"REQUEST_DENIED", "ZERO_RESULTS", "OVER_QUERY_LIMIT",
                  "UNKNOWN_ERROR", "INVALID_REQUEST"}

\* answers of the geocode API: a transport failure, or a status
GeoOK == [transport |-> "ok", status |-> "OK", lat |-> "48.8566", lng |-> "2.3522"]

GeoFailures ==
    {[transport |-> "fail", status |-> "", lat |-> "", lng |-> ""]}
    \cup {[transport |-> "ok", status |-> st, lat |-> "", lng |-> ""] :
             st \in {"ZERO_RESULTS", "REQUEST_DENIED", "NOPE"}}

Day(i) ==
    [conditions |-> IF i = 1 THEN "Clear" ELSE IF i = 2 THEN "Rain" ELSE "Fog",
     high |-> [fahrenheit |-> IF i = 1 THEN "70" ELSE "60",
               celsius |-> IF i = 1 THEN "21" ELSE "16"],
     low |-> [fahrenheit |-> IF i = 1 THEN "50" ELSE "41",
              celsius |-> IF i = 1 THEN "10" ELSE "5"]]

Observation(ob_url) ==
    [display_location |-> [full |-> "Paris, France"],
     weather |-> "Cloudy", temp_f |-> "68", temp_c |-> "20",
     relative_humidity |-> "40%", wind_kph |-> "8", wind_mph |-> "5",
     wind_dir |-> "NW", ob_url |-> ob_url, forecast_url |-> "wu/f"]

\* observation URLs with the marker, with a near miss, and without
ObUrls == {"wu/?query=,x", "wu/?query=x", "wu/o"}

ErrorDescriptions == {"No cities match your search query", UnableToRetrieve}

WxResponse(transport, error, n, ob_url) ==
    [transport |-> transport, error |-> error,
     forecast |-> [i \in 1..n |-> Day(i)],
     current_observation |-> Observation(ob_url)]

\* answers of the weather API after which no URL is shortened
WxShort ==
    {WxResponse("fail", None, 0, "wu/o")}
    \cup {WxResponse("ok", Dict([description |-> d]), n, "wu/o") :
             d \in ErrorDescriptions, n \in {0, 2}}
    \cup {WxResponse("ok", None, n, "wu/o") : n \in {0, 1}}

\* answers of the weather API with at least two forecast days
WxFull ==
    {WxResponse("ok", None, 2, u) : u \in ObUrls}
    \cup {WxResponse("ok", None, n, "wu/o") : n \in 3..MaxForecastDays}

\* answers of the URL shortener: a short URL, or None when it fails
ShAnswers == {None, Str("is.gd/x")}

\* what a user types after the command: nothing, or a location
Texts == {"", "p", "Q"}

\* the two API keys in the configuration: each absent (None), empty or set
KeyConfigs ==
    {[dev |-> Str("k"), wunder |-> Str("k")],
     [dev |-> None, wunder |-> Str("k")],
     [dev |-> Str("k"), wunder |-> Str("")],
     [dev |-> None, wunder |-> None]}

\* the "weather" table as earlier runs can have left it
InitTables == {EmptyTable, [n \in {"al"} |-> "q"]}

\* the characters statuses are made of: a letter, the two quotes, a
\* backslash, a newline, a form feed and a no-break space
StatusChars == {"K", "'", "\"", "\\", "\n", "\f", " "}

StatusInputs == KnownStatuses \cup {"OK"} \cup StringsUpTo(StatusChars, MaxStatusLen)

(* ------------------------------------------------------------------ *)
(* State                                                               *)
(* ------------------------------------------------------------------ *)

VARIABLES
    location_cache,  \* the module-level dict
    table,           \* the rows of the "weather" table, nick -> loc
    dev_key,         \* global dev_key
    wunder_key,      \* global wunder_key
    last,            \* the command that reached set_location or ended in the
                     \* latest step: inputs, answers, outcome, calls
    r_status,        \* the status a GeocodeAPIError was made with
    r_en,            \* str() of that error, None until taken
    r_fr,            \* en_francais() of that error, None until taken
    written,         \* lower-cased nicks with a row at start or given to set_location
    remembered,      \* per lower-cased nick, the text of its latest command that
                     \* was given text and got a weather record
    cache_before,    \* the dict as it was when load_cache was called on its own
    th,              \* per thread, the command it runs, what it read and was
                     \* answered, and the request or statement it waits for
    commits          \* the statements committed by the threads, in order

renderVars == <<r_status, r_en, r_fr>>

histVars == <<written, remembered>>

concVars == <<th, commits>>

vars == <<location_cache, table, dev_key, wunder_key, last, r_status, r_en, r_fr,
          written, remembered, cache_before, th, commits>>

\* a global that on_start has not assigned yet
Unset == [t |-> "unset"]

\* the threads that run commands side by side
Threads == {1, 2}

\* the first full answer of each service; a thread holds it for a request
\* it has not made yet
NoAnswer == [geo |-> GeoOK, wx |-> WxResponse("ok", None, 2, "wu/o"), sh |-> None]

\* a thread that runs no command
IdleThread ==
    [pc |-> "idle", nick |-> "", location |-> "",
     st |-> [op |-> "none", nick |-> "", loc |-> ""],
     rows |-> EmptyTable, todo |-> {}, exc |-> "",
     cmd |-> "", a |-> NoAnswer, seen |-> EmptyTable, alone |-> TRUE]

\* no command began to wait for the database or ended in the latest step
NoCall ==
    [cmd |-> "none", text |-> "", nick |-> "", geo |-> GeoOK,
     wx |-> WxResponse("ok", None, 2, "wu/o"), sh |-> None,
     gwd |-> [t |-> "none"], out |-> [t |-> "none"], trace |-> <<>>,
     alone |-> TRUE]

\* get_weather_data, and so the command, has not come back yet
Pending == [t |-> "pending"]

\* module import: an empty dict, no keys yet
Init ==
    /\ location_cache = EmptyTable
    /\ table \in InitTables
    /\ dev_key = Unset
    /\ wunder_key = Unset
    /\ last = NoCall
    /\ r_status = ""
    /\ r_en = None
    /\ r_fr = None
    /\ written = DOMAIN table
    /\ remembered = EmptyTable
    /\ cache_before = Unset
    /\ th = [t \in Threads |-> IdleThread]
    /\ commits = <<>>

\* on_start: read the two keys from the configuration, load the cache
on_start ==
    /\ dev_key = Unset
    /\ \E config \in KeyConfigs :
          /\ dev_key' = config.dev
          /\ wunder_key' = config.wunder
    /\ location_cache' = load_cache(location_cache, table)
    /\ UNCHANGED <<table, last, renderVars, histVars, cache_before, concVars>>

\* some command is running
Busy == \E t \in Threads : th[t].pc # "idle"

\* another command is running beside the one of thread t
Beside(t) == \E s \in Threads \ {t} : th[s].pc # "idle"

\* the commands that begin while another command is running: every
\* command without text, and with text the first user giving a new
\* location under either casing and a second user giving one
OverlapCalls ==
    {[cmd |-> c, text |-> "", nick |-> n] : c \in {"weather", "meteo"}, n \in Nicks}
    \cup {[cmd |-> "weather", text |-> "p", nick |-> "al"],
          [cmd |-> "meteo", text |-> "Q", nick |-> "Al"],
          [cmd |-> "weather", text |-> "p", nick |-> "bo"]}

\* the caller whose commands meet the failures of the two services; a
\* failure is handled without a look at the caller
FailureCallers == {"bo"}

\* the answers the geocode request of thread t can get (line 75); beside
\* another command, the first full answer
GeoAnswersFor(t) ==
    IF Beside(t) THEN {GeoOK}
    ELSE {GeoOK} \cup {g \in GeoFailures : th[t].nick \in FailureCallers}

\* the answers the weather request of thread t can get (line 172); a
\* command that was given text, or runs beside another one, gets the first
\* of the full answers or none
WxAnswersFor(t) ==
    IF Beside(t) THEN {NoAnswer.wx}
    ELSE {w \in WxShort : th[t].nick \in FailureCallers}
         \cup {w \in WxFull : th[t].location # "" => w = NoAnswer.wx}

\* the answers web.try_shorten can give thread t (line 224)
ShAnswersFor(t) ==
    IF Beside(t) \/ th[t].location # "" THEN {NoAnswer.sh} ELSE ShAnswers

\* the hook function of a command
command(cmd, text, nick, a, cache, tbl, dk, wk) ==
    IF cmd = "weather"
    THEN weather(text, nick, a.geo, a.wx, a.sh, cache, tbl, dk, wk)
    ELSE meteo(text, nick, a.geo, a.wx, a.sh, cache, tbl, dk, wk)

\* the position of the set_location call among the calls of a command, 0
\* when it makes none
set_location_at(trace) ==
    IF \E i \in DOMAIN trace : trace[i].ev = "set_location"
    THEN CHOOSE i \in DOMAIN trace : trace[i].ev = "set_location"
    ELSE 0

\* the command made the call ev
made(trace, ev) == \E i \in DOMAIN trace : trace[i].ev = ev

\* what line 114 reads of location_cache: the entry of nick.lower(), if any
entry_read(cache, nick) ==
    [k \in DOMAIN cache \cap {lower(nick)} |-> cache[k]]

\* the record of a command that has come back
EndRecord(cmd, text, nick, a, r, alone) ==
    [cmd |-> cmd, text |-> text, nick |-> nick, geo |-> a.geo, wx |-> a.wx,
     sh |-> a.sh, gwd |-> r.gwd, out |-> r.out, trace |-> r.trace,
     alone |-> alone]

\* a command from its start to its first wait, the geocode request of line
\* 75, or to its end when it makes no request (a key is missing, or no
\* text was given and no location is stored): the keys are checked and,
\* without text, location_cache is read once (line 114).  A command needs
\* a free thread of the pool to begin; the commands that run beside it
\* have met the first full answers so far.
Invoke(cmd, text, nick) ==
    /\ dev_key # Unset
    /\ \E t \in Threads : th[t].pc = "idle"
    /\ Busy => /\ [cmd |-> cmd, text |-> text, nick |-> nick] \in OverlapCalls
               /\ \A s \in Threads : th[s].a = NoAnswer
    /\ \E seen \in {entry_read(location_cache, nick)} :
       \E r \in {command(cmd, text, nick, NoAnswer, seen, table,
                         dev_key, wunder_key)} :
          IF ~made(r.trace, "geocode")
          THEN /\ last' = EndRecord(cmd, text, nick, NoAnswer, r, TRUE)
               /\ UNCHANGED th
          ELSE /\ \E t \in {CHOOSE f \in Threads : th[f].pc = "idle"} :
                     th' = [s \in Threads |->
                                  IF s = t
                                  THEN [IdleThread EXCEPT
                                           !.pc = "geocode", !.cmd = cmd,
                                           !.nick = nick, !.location = text,
                                           !.seen = IF text = "" THEN seen
                                                    ELSE EmptyTable,
                                           !.alone = ~Busy]
                                  ELSE [th[s] EXCEPT !.alone = (th[s].pc = "idle")]]
               /\ last' = NoCall
    /\ UNCHANGED <<location_cache, table, dev_key, wunder_key, renderVars,
                   histVars, cache_before, commits>>

Weather == \E text \in Texts, nick \in Nicks : Invoke("weather", text, nick)

Meteo == \E text \in Texts, nick \in Nicks : Invoke("meteo", text, nick)

\* the command of thread t as it goes with the answers a, no answer of
\* the services left to wait for: without text with the entry it read at
\* line 114, with text with location_cache as line 102 finds it now
outcome(t, a) ==
    command(th[t].cmd, th[t].location, th[t].nick, a,
            IF th[t].location = "" THEN th[t].seen ELSE location_cache,
            table, dev_key, wunder_key)

\* the command of thread t comes back with the record r
Returns(t, a, r) ==
    /\ last' = EndRecord(th[t].cmd, th[t].location, th[t].nick, a, r, th[t].alone)
    /\ th' = [th EXCEPT ![t] = IdleThread]

\* the command of thread t waits for the next service
Waits(t, a, pc) ==
    /\ th' = [th EXCEPT ![t] = [@ EXCEPT !.pc = pc, !.a = a]]
    /\ last' = NoCall

\* line 75 returns or raises: the geocoder's answer reaches thread t, and
\* the command goes on to the weather request of line 172 or ends
Geocoded(t) ==
    /\ th[t].pc = "geocode"
    /\ \E g \in GeoAnswersFor(t) :
       \E a \in {[th[t].a EXCEPT !.geo = g]} :
       \E r \in {outcome(t, a)} :
          IF made(r.trace, "weather")
          THEN Waits(t, a, "weather")
          ELSE Returns(t, a, r)
    /\ UNCHANGED <<location_cache, table, dev_key, wunder_key, renderVars,
                   histVars, cache_before, commits>>

\* line 172 returns or raises: the weather API's answer reaches thread t,
\* and the command goes on to web.try_shorten of line 224 or ends
Fetched(t) ==
    /\ th[t].pc = "weather"
    /\ \E w \in WxAnswersFor(t) :
       \E a \in {[th[t].a EXCEPT !.wx = w]} :
       \E r \in {outcome(t, a)} :
          IF made(r.trace, "shorten")
          THEN Waits(t, a, "shorten")
          ELSE Returns(t, a, r)
    /\ UNCHANGED <<location_cache, table, dev_key, wunder_key, renderVars,
                   histVars, cache_before, commits>>

\* line 224 returns: the record is built and, when text was given,
\* set_location is called and chooses its statement from location_cache
\* (lines 102-106), or else get_weather_data returns and the command
\* replies and ends
Shortened(t) ==
    /\ th[t].pc = "shorten"
    /\ \E x \in ShAnswersFor(t) :
       \E a \in {[th[t].a EXCEPT !.sh = x]} :
       \E r \in {outcome(t, a)} :
          IF set_location_at(r.trace) = 0
          THEN /\ Returns(t, a, r)
               /\ UNCHANGED written
          ELSE /\ th' = [th EXCEPT ![t] =
                            [@ EXCEPT !.pc = "execute", !.a = a,
                                      !.st = set_statement(location_cache,
                                                           th[t].nick,
                                                           th[t].location)]]
               /\ last' = [cmd |-> th[t].cmd, text |-> th[t].location,
                           nick |-> th[t].nick, geo |-> a.geo, wx |-> a.wx,
                           sh |-> a.sh, gwd |-> Pending, out |-> Pending,
                           trace |-> SubSeq(r.trace, 1, set_location_at(r.trace)),
                           alone |-> th[t].alone]
               /\ written' = written \cup {lower(th[t].nick)}
    /\ UNCHANGED <<location_cache, table, dev_key, wunder_key, renderVars,
                   remembered, cache_before, commits>>

\* a dict in which set_location finds what the thread found at line 102
found_cache(t) ==
    IF th[t].st.op = "update"
    THEN [k \in {th[t].nick, lower(th[t].nick)} |-> th[t].st.loc]
    ELSE EmptyTable

\* a table that takes the thread's statement as the database took it
found_table(t, accepted) ==
    IF th[t].st.op = "update" \/ ~accepted
    THEN [k \in {th[t].st.nick} |-> th[t].st.loc]
    ELSE EmptyTable

\* the end of the command of thread t: set_location returns after
\* load_cache, or the database's refusal leaves it as IntegrityError; the
\* record is the one the hook function gives for that outcome (lines
\* 228-229, then the command's reply)
Ended(t, accepted) ==
    \E cmd \in {th[t].cmd}, text \in {th[t].location}, nick \in {th[t].nick},
       a \in {th[t].a}, cache \in {found_cache(t)},
       tbl \in {found_table(t, accepted)} :
       \E r \in {command(cmd, text, nick, a, cache, tbl, dev_key, wunder_key)} :
          /\ last' = [cmd |-> cmd, text |-> text, nick |-> nick,
                      geo |-> a.geo, wx |-> a.wx, sh |-> a.sh,
                      gwd |-> r.gwd, out |-> r.out, trace |-> r.trace,
                      alone |-> th[t].alone]
          /\ th' = [th EXCEPT ![t] = IdleThread]

\* after a command of the user that nothing overlapped has returned a
\* record, the text it was given
remember(t, accepted) ==
    IF accepted /\ th[t].alone
    THEN [n \in DOMAIN remembered \cup {lower(th[t].nick)} |->
             IF n = lower(th[t].nick) THEN th[t].location ELSE remembered[n]]
    ELSE remembered

\* a thread goes on inside set_location and the command has not ended
Goes(t, pc) ==
    /\ th' = [th EXCEPT ![t] = [@ EXCEPT !.pc = pc]]
    /\ last' = NoCall

\* line 107: db.execute(statement) in the thread's own session; the rows
\* other sessions see do not change yet, an insert of a key that is already
\* committed is refused
DbExecute(t) ==
    /\ th[t].pc = "execute"
    /\ IF execute(table, th[t].st).ok
       THEN Goes(t, "commit")
       ELSE Ended(t, FALSE)
    /\ UNCHANGED <<location_cache, table, dev_key, wunder_key, renderVars,
                   histVars, cache_before, commits>>

\* line 108: db.commit(); the statement takes effect on the table, unless
\* another session has committed the same key in the meantime
DbCommit(t) ==
    /\ th[t].pc = "commit"
    /\ \E r \in {execute(table, th[t].st)} :
          IF r.ok
          THEN /\ table' = r.tbl
               /\ remembered' = [n \in DOMAIN remembered \ {th[t].st.nick} |->
                                    remembered[n]]
               /\ Goes(t, "select")
          ELSE /\ Ended(t, FALSE)
               /\ UNCHANGED <<table, remembered>>
    /\ UNCHANGED <<location_cache, dev_key, wunder_key, renderVars, written,
                   cache_before, commits>>

\* line 90: db.execute(table.select()), the rows as committed now
LoadSelect(t) ==
    /\ th[t].pc = "select"
    /\ IF DOMAIN table = {}
       THEN /\ Ended(t, TRUE)
            /\ remembered' = remember(t, TRUE)
       ELSE /\ th' = [th EXCEPT ![t] = [@ EXCEPT !.pc = "assign", !.rows = table,
                                                 !.todo = DOMAIN table]]
            /\ last' = NoCall
            /\ UNCHANGED remembered
    /\ UNCHANGED <<location_cache, table, dev_key, wunder_key, renderVars, written,
                   cache_before, commits>>

\* lines 91-93: one turn of the loop, location_cache[nick] = location for
\* the next selected row (the rows come in an order the database chooses);
\* after the last row set_location returns and the command ends
LoadAssign(t) ==
    /\ th[t].pc = "assign"
    /\ \E n \in th[t].todo :
          /\ location_cache' =
                 load_cache(location_cache, [k \in {n} |-> th[t].rows[k]])
          /\ IF th[t].todo = {n}
             THEN /\ Ended(t, TRUE)
                  /\ remembered' = remember(t, TRUE)
             ELSE /\ th' = [th EXCEPT ![t] = [@ EXCEPT !.todo = th[t].todo \ {n}]]
                  /\ last' = NoCall
                  /\ UNCHANGED remembered
    /\ UNCHANGED <<table, dev_key, wunder_key, renderVars, written, cache_before,
                   commits>>

Next ==
    \/ on_start
    \/ Weather
    \/ Meteo
    \/ \E t \in Threads :
          \/ Geocoded(t)
          \/ Fetched(t)
          \/ Shortened(t)
          \/ DbExecute(t)
          \/ DbCommit(t)
          \/ LoadSelect(t)
          \/ LoadAssign(t)

Spec == Init /\ [][Next]_vars

(* ------------------------------------------------------------------ *)
(* GeocodeAPIError on its own                                          *)
(* ------------------------------------------------------------------ *)

RenderInit ==
    /\ location_cache = EmptyTable
    /\ table = EmptyTable
    /\ dev_key = Unset
    /\ wunder_key = Unset
    /\ last = NoCall
    /\ r_status \in StatusInputs
    /\ r_en = None
    /\ r_fr = None
    /\ written = {}
    /\ remembered = EmptyTable
    /\ cache_before = Unset
    /\ th = [t \in Threads |-> IdleThread]
    /\ commits = <<>>

RenderStr ==
    /\ r_en = None
    /\ r_en' = Str(GeocodeAPIError_str(r_status))
    /\ UNCHANGED <<location_cache, table, dev_key, wunder_key, last, r_status, r_fr,
                   histVars, cache_before, concVars>>

RenderEnFrancais ==
    /\ r_fr = None
    /\ r_fr' = Str(GeocodeAPIError_en_francais(r_status))
    /\ UNCHANGED <<location_cache, table, dev_key, wunder_key, last, r_status, r_en,
                   histVars, cache_before, concVars>>

RenderNext == RenderStr \/ RenderEnFrancais

SpecRender == RenderInit /\ [][RenderNext]_vars

(* ------------------------------------------------------------------ *)
(* load_cache on its own                                               *)
(* ------------------------------------------------------------------ *)

\* dicts and tables of lower-case rows for up to two users
Dicts ==
    UNION {[ks -> {"p", "q"}] : ks \in SUBSET {"al", "bo"}}

\* any dict, any table: the table belongs to the storage engine and can
\* have lost or gained rows since the dict was filled
LoadInit ==
    /\ location_cache \in Dicts
    /\ table \in Dicts
    /\ dev_key = Unset
    /\ wunder_key = Unset
    /\ last = NoCall
    /\ r_status = ""
    /\ r_en = None
    /\ r_fr = None
    /\ written = {}
    /\ remembered = EmptyTable
    /\ cache_before = Unset
    /\ th = [t \in Threads |-> IdleThread]
    /\ commits = <<>>

\* one call of load_cache(db)
LoadCache ==
    /\ cache_before = Unset
    /\ cache_before' = Dict(location_cache)
    /\ location_cache' = load_cache(location_cache, table)
    /\ UNCHANGED <<table, dev_key, wunder_key, last, renderVars, histVars, concVars>>

LoadNext == LoadCache

SpecLoad == LoadInit /\ [][LoadNext]_vars

(* ------------------------------------------------------------------ *)
(* set_location from commands that run side by side                    *)
(* ------------------------------------------------------------------ *)

\* on_start has run with both keys set; no command has run yet
ConcInit ==
    /\ table \in InitTables
    /\ location_cache = load_cache(EmptyTable, table)
    /\ dev_key = Str("k")
    /\ wunder_key = Str("k")
    /\ last = NoCall
    /\ r_status = ""
    /\ r_en = None
    /\ r_fr = None
    /\ written = DOMAIN table
    /\ remembered = EmptyTable
    /\ cache_before = Unset
    /\ th = [t \in Threads |-> IdleThread]
    /\ commits = <<>>

\* lines 226-227: a command that was given text has its weather record and
\* calls set_location(nick, location, db)
CallSetLocation(t) ==
    /\ th[t].pc = "idle"
    /\ \E nick \in Nicks, text \in Texts \ {""} :
          th' = [th EXCEPT ![t] = [@ EXCEPT !.pc = "read", !.nick = nick,
                                            !.location = text]]
    /\ UNCHANGED <<location_cache, table, dev_key, wunder_key, last, renderVars,
                   histVars, cache_before, commits>>

\* lines 102-106: lower-case, look in the dict, build the statement
ReadCache(t) ==
    /\ th[t].pc = "read"
    /\ th' = [th EXCEPT ![t] =
                 [@ EXCEPT !.pc = "execute",
                           !.st = set_statement(location_cache, th[t].nick,
                                                th[t].location)]]
    /\ UNCHANGED <<location_cache, table, dev_key, wunder_key, last, renderVars,
                   histVars, cache_before, commits>>

\* line 107: db.execute(statement) in the thread's own session; the rows
\* other sessions see do not change yet, an insert of a key that is already
\* committed is refused
Execute(t) ==
    /\ th[t].pc = "execute"
    /\ th' = [th EXCEPT ![t] =
                 IF execute(table, th[t].st).ok
                 THEN [@ EXCEPT !.pc = "commit"]
                 ELSE [@ EXCEPT !.pc = "raised", !.exc = "IntegrityError"]]
    /\ UNCHANGED <<location_cache, table, dev_key, wunder_key, last, renderVars,
                   histVars, cache_before, commits>>

\* line 108: db.commit(); the statement takes effect on the table, unless
\* another session has committed the same key in the meantime
Commit(t) ==
    /\ th[t].pc = "commit"
    /\ \E r \in {execute(table, th[t].st)} :
          IF r.ok
          THEN /\ table' = r.tbl
               /\ commits' = Append(commits, [t |-> t, nick |-> th[t].st.nick,
                                               loc |-> th[t].st.loc])
               /\ th' = [th EXCEPT ![t] = [@ EXCEPT !.pc = "select"]]
          ELSE /\ th' = [th EXCEPT ![t] =
                            [@ EXCEPT !.pc = "raised", !.exc = "IntegrityError"]]
               /\ UNCHANGED <<table, commits>>
    /\ UNCHANGED <<location_cache, dev_key, wunder_key, last, renderVars,
                   histVars, cache_before>>

\* line 90: db.execute(table.select()), the rows as committed now
Select(t) ==
    /\ th[t].pc = "select"
    /\ th' = [th EXCEPT ![t] =
                 [@ EXCEPT !.pc = IF DOMAIN table = {} THEN "done" ELSE "assign",
                           !.rows = table, !.todo = DOMAIN table]]
    /\ UNCHANGED <<location_cache, table, dev_key, wunder_key, last, renderVars,
                   histVars, cache_before, commits>>

\* lines 91-93: one turn of the loop, location_cache[nick] = location for
\* the next selected row (the rows come in an order the database chooses)
Assign(t) ==
    /\ th[t].pc = "assign"
    /\ \E n \in th[t].todo :
          /\ location_cache' =
                 load_cache(location_cache, [k \in {n} |-> th[t].rows[k]])
          /\ th' = [th EXCEPT ![t] =
                       [@ EXCEPT !.pc = IF th[t].todo = {n} THEN "done" ELSE "assign",
                                 !.todo = th[t].todo \ {n}]]
    /\ UNCHANGED <<table, dev_key, wunder_key, last, renderVars, histVars,
                   cache_before, commits>>

ConcNext ==
    \E t \in Threads :
        \/ CallSetLocation(t)
        \/ ReadCache(t)
        \/ Execute(t)
        \/ Commit(t)
        \/ Select(t)
        \/ Assign(t)

SpecConc == ConcInit /\ [][ConcNext]_vars

(* ------------------------------------------------------------------ *)
(* Reading the record of the latest command                            *)
(* ------------------------------------------------------------------ *)

\* positions in the latest command's calls where ev was called
Calls(l, ev) == {i \in DOMAIN l.trace : l.trace[i].ev = ev}

Called(l, ev) == Calls(l, ev) # {}

\* every call of first comes before every call of second
Before(l, first, second) ==
    \A i \in Calls(l, first), j \in Calls(l, second) : i < j

\* a command ended, or reached line 107 of set_location, in the step that
\* led here
Ran(l) == l.cmd # "none"

\* the command is inside set_location
Waiting(l) == Ran(l) /\ l.out.t = "pending"

\* the command has ended
Finished(l) == Ran(l) /\ l.out.t # "pending"

\* set_location was called and has returned
SetLocationCompleted(l) ==
    /\ Called(l, "set_location")
    /\ l.gwd.t = "return"

\* the thread whose command ends in this step
Ending(t) == th[t].pc # "idle" /\ th'[t].pc = "idle"

AllLower(d) == \A n \in DOMAIN d : lower(n) = n /\ lower(d[n]) = d[n]

KeysConfigured == Truthy(dev_key) /\ Truthy(wunder_key)

\* the weather API answered the latest command (no transport failure)
WeatherAnswered(l) == Called(l, "weather") /\ l.wx.transport = "ok"

\* the geocode API answered the latest command (no transport failure)
GeocodeAnswered(l) == Called(l, "geocode") /\ l.geo.transport = "ok"

upper_char(c) ==
    IF \E i \in 1..Len(LowerLetters) : SubSeq(LowerLetters, i, i) = c
    THEN LET i == CHOOSE j \in 1..Len(LowerLetters) : SubSeq(LowerLetters, j, j) = c
         IN SubSeq(UpperLetters, i, i)
    ELSE c

RECURSIVE Casings(_)
\* every way of writing s in upper and lower case
Casings(s) ==
    IF s = "" THEN {""}
    ELSE {c \o rest : c \in {lower_char(Head(s)), upper_char(Head(s))},
                      rest \in Casings(Tail(s))}

(* ------------------------------------------------------------------ *)
(* C1                                                                  *)
(* ------------------------------------------------------------------ *)

\* C1: whenever a set_location call that no other invocation overlapped
\* has completed, location_cache holds exactly the rows of the table, and
\* every key and value of both is lower-case.
C1_CacheEqualsTable ==
    (SetLocationCompleted(last) /\ last.alone) =>
        /\ location_cache = table
        /\ AllLower(location_cache)
        /\ AllLower(table)

\* a mixed-case nick saved a mixed-case location over an earlier row
C1_Witness ==
    /\ SetLocationCompleted(last) /\ last.alone
    /\ last.nick = "Al" /\ last.text = "Q"
    /\ \E i \in Calls(last, "set_location") : last.trace[i].op = "update"
    /\ DOMAIN table = {"al", "bo"}
    /\ table["al"] = "q"

(* ------------------------------------------------------------------ *)
(* C2                                                                  *)
(* ------------------------------------------------------------------ *)

\* C2: right after a set_location(u, L) that no other invocation
\* overlapped has completed, get_location(u') returns lower(L) for every
\* casing u' of u, on the insert path and on the update path, whatever
\* earlier invocations left in cache and table.
C2_SetThenGet ==
    (SetLocationCompleted(last) /\ last.alone) =>
        \A i \in Calls(last, "set_location") :
            /\ last.trace[i].op \in {"insert", "update"}
            /\ \A u \in Casings(last.trace[i].nick) :
                  get_location(location_cache, u) = Str(lower(last.trace[i].location))

\* the update path, reached under another casing than the one stored
C2_Witness ==
    /\ SetLocationCompleted(last) /\ last.alone
    /\ last.nick = "Al"
    /\ last.text = "Q"
    /\ \E i \in Calls(last, "set_location") : last.trace[i].op = "update"
    /\ get_location(location_cache, "AL") = Str("q")

\* the insert path
C2_WitnessInsert ==
    /\ SetLocationCompleted(last) /\ last.alone
    /\ \E i \in Calls(last, "set_location") : last.trace[i].op = "insert"

(* ------------------------------------------------------------------ *)
(* C3                                                                  *)
(* ------------------------------------------------------------------ *)

\* the answers after which no full weather record exists
FetchFailed(l) ==
    \/ l.geo.transport # "ok"
    \/ l.geo.status # "OK"
    \/ l.wx.transport # "ok"
    \/ Truthy(l.wx.error)
    \/ Len(l.wx.forecast) = 0

C3_Order ==
    (Ran(last) /\ last.text # "") =>
        /\ Before(last, "geocode", "weather")
        /\ Called(last, "weather") => Called(last, "geocode")
        /\ Before(last, "weather", "set_location")
        /\ Called(last, "set_location") =>
              /\ Called(last, "weather")
              /\ ~FetchFailed(last)
              /\ Len(last.wx.forecast) >= 2

C3_Step ==
    (Ran(last') /\ last'.text # "" /\ FetchFailed(last')) =>
        /\ ~Called(last', "set_location")
        /\ location_cache' = location_cache
        /\ table' = table

\* C3: with typed location text the geocode request comes before the
\* weather request and set_location only after the weather request gave a
\* full record; after a geocode failure, a weather transport failure, an
\* error object or an empty forecast list set_location is not called and
\* cache and table are unchanged.
C3_SaveOnlyAfterFetch == []C3_Order /\ [][C3_Step]_vars

\* typed text, both requests made, the provider reported an error, and
\* nothing was saved for a user who has no row
C3_Witness ==
    /\ Ran(last) /\ last.text = "Q" /\ last.nick = "bo"
    /\ Called(last, "geocode") /\ WeatherAnswered(last)
    /\ Truthy(last.wx.error)
    /\ "bo" \notin DOMAIN table

(* ------------------------------------------------------------------ *)
(* C4                                                                  *)
(* ------------------------------------------------------------------ *)

\* no key of the dict is the nick in any casing
NoEntry(cache, nick) == \A k \in DOMAIN cache : lower(k) # lower(nick)

C4_Step ==
    (/\ Ran(last')
     /\ KeysConfigured
     /\ last'.text = ""
     /\ NoEntry(location_cache, last'.nick)) =>
        /\ Cardinality(Calls(last', "notice_doc")) = 1
        /\ last'.gwd = Return(None)
        /\ ~Called(last', "geocode")
        /\ ~Called(last', "weather")
        /\ location_cache' = location_cache
        /\ table' = table

\* C4: with both keys configured, empty text and no entry for the caller
\* in location_cache, get_weather_data calls notice_doc exactly once,
\* returns None, makes no geocode or weather request and leaves cache and
\* table unchanged.
C4_NoLocationNotice == [][C4_Step]_vars

\* a caller without a row asked with empty text while another user has one
C4_Witness ==
    /\ Ran(last) /\ KeysConfigured
    /\ last.text = "" /\ last.nick = "bo"
    /\ NoEntry(location_cache, "bo")
    /\ "al" \in DOMAIN location_cache
    /\ Called(last, "notice_doc")

(* ------------------------------------------------------------------ *)
(* C5                                                                  *)
(* ------------------------------------------------------------------ *)

\* the message a command gives for a missing key, written out
MissingKeyMessage(cmd, name) ==
    IF cmd = "weather"
    THEN IF name = "Weather Underground"
         THEN "This command requires a Weather Underground API key."
         ELSE "This command requires a Google Developers Console API key."
    ELSE IF name = "Weather Underground"
         THEN "Cette commande nécessite une clé API Weather Underground."
         ELSE "Cette commande nécessite une clé API Google Developers Console."

\* the key of the named provider is missing
KeyMissing(name) ==
    \/ name = "Weather Underground" /\ ~Truthy(wunder_key)
    \/ name = "Google Developers Console" /\ ~Truthy(dev_key)

C5_Step ==
    (Ran(last') /\ ~KeysConfigured) =>
        /\ last'.gwd.t = "raise"
        /\ last'.gwd.exc = "APIKeyMissing"
        /\ KeyMissing(last'.gwd.arg)
        /\ last'.trace = <<>>
        /\ last'.out = Return(Str(MissingKeyMessage(last'.cmd, last'.gwd.arg)))
        /\ location_cache' = location_cache
        /\ table' = table

\* C5: if either API key is absent, get_weather_data raises APIKeyMissing
\* naming a provider whose key is missing before doing anything else (no
\* cache lookup, no notice_doc, no request, cache and table unchanged), for
\* empty and non-empty text, and each command returns the message in its
\* own language.
C5_MissingKeyFirst == [][C5_Step]_vars

\* only the geocoding key is missing, the caller has a row and typed text
C5_Witness ==
    /\ Ran(last) /\ last.cmd = "meteo"
    /\ ~Truthy(dev_key) /\ Truthy(wunder_key)
    /\ last.text = "Q" /\ last.nick = "Al"
    /\ "al" \in DOMAIN location_cache
    /\ last.out = Return(Str("Cette commande nécessite une clé API Google Developers Console."))

(* ------------------------------------------------------------------ *)
(* C6                                                                  *)
(* ------------------------------------------------------------------ *)

C6_Step ==
    (/\ Ran(last')
     /\ GeocodeAnswered(last')
     /\ last'.geo.status # "OK") =>
        /\ last'.out.t = "return"
        /\ last'.out.v = Str(IF last'.cmd = "weather"
                             THEN GeocodeAPIError_str(last'.geo.status)
                             ELSE GeocodeAPIError_en_francais(last'.geo.status))
        /\ (last'.geo.status = "ZERO_RESULTS" /\ last'.cmd = "weather") =>
              last'.out.v = Str("No results found.")
        /\ (last'.geo.status = "ZERO_RESULTS" /\ last'.cmd = "meteo") =>
              last'.out.v = Str("Aucun resultat n'a été trouvé.")
        /\ ~Called(last', "weather")
        /\ ~Called(last', "reply")
        /\ location_cache' = location_cache
        /\ table' = table

\* C6: when the geocode API answers with a status other than OK the
\* command returns the error rendered in its own language ('No results
\* found.' / "Aucun resultat n'a été trouvé." for ZERO_RESULTS), makes no
\* weather request, does not call reply and leaves cache and table
\* unchanged.
C6_GeocodeStatusError == [][C6_Step]_vars

\* the French command, typed text, ZERO_RESULTS
C6_Witness ==
    /\ Ran(last) /\ last.cmd = "meteo" /\ last.text = "p"
    /\ GeocodeAnswered(last)
    /\ last.geo.status = "ZERO_RESULTS"
    /\ last.out = Return(Str("Aucun resultat n'a été trouvé."))

(* ------------------------------------------------------------------ *)
(* C7                                                                  *)
(* ------------------------------------------------------------------ *)

\* the fixed English and French messages, by status
FixedEnglish(status) ==
    CASE status = "REQUEST_DENIED" -> "The geocode API is off in the Google Developers Console."
      [] status = "ZERO_RESULTS" -> "No results found."
      [] status = "OVER_QUERY_LIMIT" -> "The geocode API quota has run out."
      [] status = "UNKNOWN_ERROR" -> "Unknown Error."
      [] status = "INVALID_REQUEST" -> "Invalid Request."

FixedFrench(status) ==
    CASE status = "REQUEST_DENIED" -> "L'API de géocodage est désactivée dans la console des développeurs Google."
      [] status = "ZERO_RESULTS" -> "Aucun resultat n'a été trouvé."
      [] status = "OVER_QUERY_LIMIT" -> "Le quota de API de géocodage est épuisé."
      [] status = "UNKNOWN_ERROR" -> "Quelque chose a mal tourné."
      [] status = "INVALID_REQUEST" -> "Il y a eu une demande invalide."

BothRendered == r_en # None /\ r_fr # None

\* the five known statuses give the fixed strings
C7_Known ==
    (BothRendered /\ r_status \in KnownStatuses) =>
        /\ r_en = Str(FixedEnglish(r_status))
        /\ r_fr = Str(FixedFrench(r_status))

\* C7 as stated: for each of the five known statuses the English and the
\* French rendering are the fixed strings, and for every other status both
\* renderings contain the raw status.
C7_RawStatusEmbedded ==
    /\ C7_Known
    /\ (BothRendered /\ r_status \notin KnownStatuses) =>
          /\ Contains(r_en.s, r_status)
          /\ Contains(r_fr.s, r_status)

(* ------------------------------------------------------------------ *)
(* C8                                                                  *)
(* ------------------------------------------------------------------ *)

\* the weather API answered without an error object and with no forecast day
EmptyForecast(l) ==
    WeatherAnswered(l) /\ ~Truthy(l.wx.error) /\ Len(l.wx.forecast) = 0

C8_Step ==
    (Ran(last') /\ EmptyForecast(last')) =>
        /\ last'.cmd = "weather" =>
              last'.out = Return(Str("Unable to retrieve forecast data."))
        /\ last'.cmd = "meteo" =>
              last'.out = Return(Str("Impossible de récupérer les données météorologiques."))
        /\ ~Called(last', "reply")
        /\ ~Called(last', "set_location")
        /\ location_cache' = location_cache
        /\ table' = table

\* C8: when the weather response has no error object and an empty forecast
\* list, weather returns 'Unable to retrieve forecast data.', meteo returns
\* 'Impossible de récupérer les données météorologiques.', reply is not
\* called and the location is not saved, typed or not.
C8_EmptyForecast == [][C8_Step]_vars

\* the French command with typed text met an empty forecast list
C8_Witness ==
    /\ Ran(last) /\ last.cmd = "meteo" /\ last.text = "Q" /\ last.nick = "bo"
    /\ EmptyForecast(last)
    /\ "bo" \notin DOMAIN table

(* ------------------------------------------------------------------ *)
(* C9                                                                  *)
(* ------------------------------------------------------------------ *)

\* C9 as stated: whenever the weather response has no error object and at
\* least one forecast day, get_weather_data returns a weather record with
\* today's and tomorrow's fields; it neither raises nor returns a message.
C9_RecordForAnyForecast ==
    (/\ Finished(last)
     /\ WeatherAnswered(last)
     /\ ~Truthy(last.wx.error)
     /\ Len(last.wx.forecast) >= 1) =>
        /\ last.gwd.t = "return"
        /\ last.gwd.v.t = "dict"
        /\ last.gwd.v.d.today_conditions = last.wx.forecast[1].conditions
        /\ last.gwd.v.d.tomorrow_conditions = last.wx.forecast[2].conditions

(* ------------------------------------------------------------------ *)
(* C10                                                                 *)
(* ------------------------------------------------------------------ *)

\* C10 as stated: when the weather response has an error object,
\* get_weather_data returns its description as a string, whatever the
\* forecast list holds, both commands return that text unchanged, and the
\* location is not saved.
C10_ErrorDescriptionPassedThrough ==
    (Ran(last) /\ WeatherAnswered(last) /\ Truthy(last.wx.error)) =>
        /\ last.gwd = Return(Str(last.wx.error.d.description))
        /\ last.out = Return(Str(last.wx.error.d.description))
        /\ ~Called(last, "reply")
        /\ ~Called(last, "set_location")

(* ------------------------------------------------------------------ *)
(* C11                                                                 *)
(* ------------------------------------------------------------------ *)

\* the eight characters ?query=, stand somewhere in the URL
HasMarker(url) ==
    \E i \in 1..Len(url) :
        /\ i + 7 <= Len(url)
        /\ SubSeq(url, i, i + 7) = "?query=,"

\* the URL the record must be made from
ExpectedUrl(l) ==
    IF HasMarker(l.wx.current_observation.ob_url)
    THEN l.wx.current_observation.forecast_url
    ELSE l.wx.current_observation.ob_url

\* C11: the URL handed to the shortener, and so the URL of the weather
\* record, is the forecast URL exactly when the observation URL contains
\* '?query=,' and the observation URL exactly when it does not, whatever
\* the number of forecast days and the caller.
C11_UrlSelection ==
    (Ran(last) /\ last.gwd.t = "return" /\ last.gwd.v.t = "dict") =>
        /\ Cardinality(Calls(last, "shorten")) = 1
        /\ \A i \in Calls(last, "shorten") : last.trace[i].url = ExpectedUrl(last)
        /\ last.gwd.v.d.url = IF Truthy(last.sh) THEN last.sh.s ELSE ExpectedUrl(last)
        /\ (last.wx.current_observation.ob_url # last.wx.current_observation.forecast_url) =>
              \A i \in Calls(last, "shorten") :
                  (last.trace[i].url = last.wx.current_observation.forecast_url)
                      <=> HasMarker(last.wx.current_observation.ob_url)

\* an observation URL that has '?query=' but not the comma, kept as it is
C11_Witness ==
    /\ Ran(last) /\ last.gwd.t = "return" /\ last.gwd.v.t = "dict"
    /\ last.wx.current_observation.ob_url = "wu/?query=x"
    /\ ~Truthy(last.sh)
    /\ last.gwd.v.d.url = "wu/?query=x"

\* an observation URL with the marker, replaced by the forecast URL
C11_WitnessMarker ==
    /\ Ran(last) /\ last.gwd.t = "return" /\ last.gwd.v.t = "dict"
    /\ last.wx.current_observation.ob_url = "wu/?query=,x"
    /\ ~Truthy(last.sh)
    /\ last.gwd.v.d.url = "wu/f"

(* ------------------------------------------------------------------ *)
(* C12                                                                 *)
(* ------------------------------------------------------------------ *)

\* no row at start and no set_location call was for this user, in any casing
NeverWritten(u) == \A w \in written : lower(w) # lower(u)

\* C12, in every state: get_location gives None for every user never
\* written, under every casing of the nick.
C12_State ==
    \A u \in Nicks :
        NeverWritten(u) =>
            \A v \in Casings(u) : get_location(location_cache, v) = None

\* C12, in every step: a command of a never-written user with empty text
\* looks the user up, finds nothing (notice_doc, None returned, nothing
\* raised), and the lookup leaves cache and table as they were.
C12_Step ==
    (/\ Ran(last')
     /\ KeysConfigured
     /\ last'.text = ""
     /\ NeverWritten(last'.nick)) =>
        /\ last'.trace = <<[ev |-> "get_location", nick |-> last'.nick],
                           [ev |-> "notice_doc"]>>
        /\ last'.gwd = Return(None)
        /\ location_cache' = location_cache
        /\ table' = table

\* C12: for a user that had no row at start and that no set_location call
\* has written in any casing, get_location returns None without raising,
\* whatever was written for other users, and the lookup changes neither
\* cache nor table.
C12_AbsentForUnknownUser == []C12_State /\ [][C12_Step]_vars

\* another user has been written twice, and the never-written user asked
C12_Witness ==
    /\ Ran(last) /\ KeysConfigured
    /\ last.nick = "bo" /\ last.text = ""
    /\ NeverWritten("bo")
    /\ written = {"al"}
    /\ "al" \in DOMAIN remembered
    /\ Called(last, "get_location")

(* ------------------------------------------------------------------ *)
(* C14                                                                 *)
(* ------------------------------------------------------------------ *)

\* the command was given text and get_weather_data returned a record
GotRecordForText(l) ==
    l.text # "" /\ l.gwd.t = "return" /\ l.gwd.v.t = "dict"

C14_Step ==
    /\ table' # table =>
          \E t \in Threads :
             /\ th[t].pc = "commit" /\ th'[t].pc = "select"
             /\ th[t].location # ""
             /\ DOMAIN table' = DOMAIN table \cup {lower(th[t].nick)}
             /\ table'[lower(th[t].nick)] = lower(th[t].location)
             /\ \A n \in DOMAIN table :
                   n # lower(th[t].nick) => table'[n] = table[n]
    /\ Finished(last') =>
          (GotRecordForText(last') <=>
              \E t \in Threads : Ending(t) /\ th[t].pc \in {"select", "assign"})
    /\ (Ran(last') /\ last'.text = "") =>
          /\ table' = table
          /\ location_cache' = location_cache
    /\ \A n \in DOMAIN table : n \in DOMAIN table'

\* C14: the table is written exactly by a command that was given text and
\* comes back with a full weather record: every change of the table is the
\* commit of such a command and makes the caller's row (lower(nick),
\* lower(text)) while no other row changes, and a command with text comes
\* back with a record exactly when its statement was committed; a command
\* with empty text leaves cache and table unchanged even when it gets a
\* record; no step removes a row.
C14_WriteFrame == [][C14_Step]_vars

\* a second user saved a location while the first user's row stayed
C14_Witness ==
    /\ Ran(last) /\ GotRecordForText(last)
    /\ last.nick = "bo" /\ last.text = "Q"
    /\ DOMAIN table = {"al", "bo"}
    /\ table["al"] = "p" /\ table["bo"] = "q"

\* a command with empty text got a record from the remembered location
C14_WitnessEmptyText ==
    /\ Ran(last) /\ last.text = ""
    /\ last.gwd.t = "return" /\ last.gwd.v.t = "dict"

(* ------------------------------------------------------------------ *)
(* C15                                                                 *)
(* ------------------------------------------------------------------ *)

C15_Step ==
    (/\ Ran(last')
     /\ last'.text = ""
     /\ lower(last'.nick) \in DOMAIN remembered) =>
        /\ ~Called(last', "notice_doc")
        /\ Cardinality(Calls(last', "geocode")) = 1
        /\ \A i \in Calls(last', "geocode") :
              last'.trace[i].address = lower(remembered[lower(last'.nick)])

\* C15: once a command of user u with text T, overlapped by no other
\* invocation, has returned a weather record, a later command of u under
\* any casing of the nick with empty text, with no row committed for u in
\* between, does not call notice_doc and asks the geocoder for exactly
\* lower(T).
C15_RememberedLocation == [][C15_Step]_vars

\* the user typed Q as al, and asks again as Al with no text, after the
\* other user has saved a location too
C15_Witness ==
    /\ Ran(last) /\ last.text = "" /\ last.nick = "Al"
    /\ DOMAIN remembered = {"al", "bo"}
    /\ remembered["al"] = "Q"
    /\ \E i \in Calls(last, "geocode") : last.trace[i].address = "q"

(* ------------------------------------------------------------------ *)
(* C17                                                                 *)
(* ------------------------------------------------------------------ *)

\* the table has a row for the user, compared without case
HasRow(tbl, nick) == \E k \in DOMAIN tbl : lower(k) = lower(nick)

\* at most one row per lower-cased user id
C17_OneRowPerUser ==
    \A k1 \in DOMAIN table, k2 \in DOMAIN table :
        lower(k1) = lower(k2) => k1 = k2

C17_Step ==
    (Ran(last') /\ last'.alone) =>
        /\ ~(last'.gwd.t = "raise" /\ last'.gwd.exc = "IntegrityError")
        /\ ~(last'.out.t = "raise" /\ last'.out.exc = "IntegrityError")
        /\ Waiting(last') =>
              \A i \in Calls(last', "set_location") :
                 /\ last'.trace[i].op = "insert" <=> ~HasRow(table, last'.trace[i].nick)
                 /\ last'.trace[i].op = "update" <=> HasRow(table, last'.trace[i].nick)

\* C17: the table has at most one row per lower-cased user id; a
\* set_location call that no other invocation overlaps issues an insert
\* only when the table has no row for lower(nick) and an update only when
\* it has one, so no statement is refused for the primary key and no
\* update matches no row.
C17_InsertOrUpdate == []C17_OneRowPerUser /\ [][C17_Step]_vars

\* an update under another casing than the stored one, two users stored
C17_Witness ==
    /\ Waiting(last) /\ last.alone /\ last.nick = "Al"
    /\ \E i \in Calls(last, "set_location") : last.trace[i].op = "update"
    /\ DOMAIN table = {"al", "bo"}

(* ------------------------------------------------------------------ *)
(* C19                                                                 *)
(* ------------------------------------------------------------------ *)

\* the pipeline state a call belongs to: 1 RESOLVE_LOCATION, 2 GEOCODE,
\* 3 FETCH, 4 CACHE_UPDATE, 5 after DONE (the command's reply)
StageOf(ev) ==
    CASE ev \in {"get_location", "notice_doc"} -> 1
      [] ev = "geocode" -> 2
      [] ev \in {"weather", "shorten"} -> 3
      [] ev = "set_location" -> 4
      [] ev = "reply" -> 5

\* the latest call of the command was ev
EndsWith(l, ev) == l.trace # <<>> /\ l.trace[Len(l.trace)].ev = ev

\* the place of a thread in its command: it waits for 1 the geocoder
\* (line 75), 2 the weather API (172), 3 the shortener (224), inside
\* set_location for 4 execute (107), 5 commit (108), 6 select (90),
\* 7 its assignments (91-93); 8 the command has ended
PlaceOf(pc) ==
    CASE pc = "geocode" -> 1
      [] pc = "weather" -> 2
      [] pc = "shorten" -> 3
      [] pc = "execute" -> 4
      [] pc = "commit" -> 5
      [] pc = "select" -> 6
      [] pc = "assign" -> 7
      [] pc = "idle" -> 8

C19_Pipeline ==
    /\ \A t \in Threads :
          th[t].pc # "idle" =>
              /\ th[t].pc \in {"geocode", "weather", "shorten",
                              "execute", "commit", "select", "assign"}
              /\ th[t].pc = "assign" => th[t].todo # {}
    /\ Ran(last) =>
        /\ Finished(last) =>
              /\ last.gwd.t \in {"return", "raise"}
              /\ last.out.t \in {"return", "raise"}
        /\ Waiting(last) => EndsWith(last, "set_location")
        /\ \A i \in DOMAIN last.trace, j \in DOMAIN last.trace :
              i < j => StageOf(last.trace[i].ev) <= StageOf(last.trace[j].ev)
        /\ Cardinality(Calls(last, "geocode")) <= 1
        /\ Cardinality(Calls(last, "weather")) <= 1
        /\ Cardinality(Calls(last, "shorten")) <= 1
        /\ Cardinality(Calls(last, "set_location")) <= 1
        /\ Before(last, "geocode", "weather")
        /\ Before(last, "weather", "shorten")
        /\ Before(last, "shorten", "set_location")
        /\ (Called(last, "geocode") /\ (last.geo.transport # "ok" \/ last.geo.status # "OK")) =>
              EndsWith(last, "geocode")
        /\ (Called(last, "weather") /\ last.wx.transport # "ok") =>
              EndsWith(last, "weather")

C19_Step ==
    \A t \in Threads :
        th[t].pc # "idle" =>
            /\ PlaceOf(th'[t].pc) >= PlaceOf(th[t].pc)
            /\ (th'[t].pc = "assign" /\ th[t].pc = "assign") =>
                  \A n \in th'[t].todo : n \in th[t].todo
            /\ (th'[t].pc = th[t].pc /\ th'[t].todo = th[t].todo) =>
                  /\ th'[t].st = th[t].st
                  /\ th'[t].rows = th[t].rows
            /\ Ending(t) => Finished(last')

\* C19: every invocation goes forward only through RESOLVE_LOCATION,
\* GEOCODE, FETCH and CACHE_UPDATE and ends (returns or raises): it makes
\* at most one geocode request, then at most one weather request, then at
\* most one shortening call, and nothing follows a failed request; inside
\* set_location a thread always has a next step, no step takes it back,
\* the rows left to assign only shrink, and it leaves with the command's
\* result.
C19_ForwardOnly == []C19_Pipeline /\ [][C19_Step]_vars

\* all four stages in one invocation
C19_Witness ==
    /\ Finished(last)
    /\ Called(last, "geocode") /\ Called(last, "weather")
    /\ Called(last, "shorten") /\ Called(last, "set_location")
    /\ Called(last, "reply")

\* an invocation that ended at a failed geocode request
C19_WitnessFailure ==
    /\ Ran(last) /\ last.geo.transport # "ok"
    /\ EndsWith(last, "geocode")
    /\ last.gwd.t = "raise"

(* ------------------------------------------------------------------ *)
(* C20                                                                 *)
(* ------------------------------------------------------------------ *)

\* a request of the command was made and failed in transport
TransportFailed(l) ==
    \/ Called(l, "geocode") /\ l.geo.transport # "ok"
    \/ Called(l, "weather") /\ l.wx.transport # "ok"

C20_Step ==
    Ran(last') =>
        /\ TransportFailed(last') =>
              /\ last'.gwd.t = "raise"
              /\ last'.gwd.exc \notin {"GeocodeAPIError", "APIKeyMissing"}
              /\ last'.out = last'.gwd
              /\ ~Called(last', "reply")
              /\ location_cache' = location_cache
              /\ table' = table
        /\ (last'.gwd.t = "raise" /\ last'.gwd.exc \in {"GeocodeAPIError", "APIKeyMissing"}) =>
              /\ last'.out.t = "return"
              /\ last'.out.v.t = "str"
        /\ last'.out.t = "raise" =>
              last'.out.exc \notin {"GeocodeAPIError", "APIKeyMissing"}

\* C20: a transport failure of the geocode or of the weather request is
\* caught neither by get_weather_data nor by a command: it leaves the
\* command as an error that is neither GeocodeAPIError nor APIKeyMissing,
\* reply is not called, cache and table are unchanged; APIKeyMissing and
\* GeocodeAPIError never leave a command and are returned as a string.
C20_TransportEscapes == [][C20_Step]_vars

\* the weather request of the French command failed after typed text
C20_Witness ==
    /\ Ran(last) /\ last.cmd = "meteo" /\ last.text = "p"
    /\ Called(last, "weather") /\ last.wx.transport # "ok"
    /\ last.out.t = "raise"

\* the geocode request of the English command failed
C20_WitnessGeocode ==
    /\ Ran(last) /\ last.cmd = "weather"
    /\ Called(last, "geocode") /\ last.geo.transport # "ok"
    /\ last.out.t = "raise"

(* ------------------------------------------------------------------ *)
(* C16                                                                 *)
(* ------------------------------------------------------------------ *)

\* C16 as stated: whatever the dict held before, after load_cache it
\* holds exactly the rows of the table, so an entry without a row is gone.
C16_CacheReplaced ==
    cache_before # Unset =>
        /\ location_cache = table
        /\ \A n \in DOMAIN cache_before.d :
              n \notin DOMAIN table => n \notin DOMAIN location_cache

(* ------------------------------------------------------------------ *)
(* C13                                                                 *)
(* ------------------------------------------------------------------ *)

\* every thread has called set_location and the call has ended
AllEnded == \A t \in Threads : th[t].pc \in {"done", "raised"}

\* every thread's set_location call has returned
AllReturned == \A t \in Threads : th[t].pc = "done"

\* all threads wrote for one user
SameUser == \A t1 \in Threads, t2 \in Threads : lower(th[t1].nick) = lower(th[t2].nick)

\* C13 as stated: when two set_location calls for the same user
\* interleave, both complete without error, and table and cache end with
\* the location of the write that committed last, also when the user had
\* no row before.
C13_LastWriteWins ==
    (AllEnded /\ SameUser) =>
        /\ AllReturned
        /\ Len(commits) = Cardinality(Threads)
        /\ \A t \in Threads :
              /\ lower(th[t].nick) \in DOMAIN table
              /\ lower(th[t].nick) \in DOMAIN location_cache
              /\ table[lower(th[t].nick)] = commits[Len(commits)].loc
              /\ location_cache[lower(th[t].nick)] = commits[Len(commits)].loc

(* ------------------------------------------------------------------ *)
(* C18                                                                 *)
(* ------------------------------------------------------------------ *)

\* C18 as stated: when set_location calls of the same or of different
\* users interleave, then once every call has returned the cache equals
\* the table.
C18_CacheEqualsTableAfterRace ==
    AllReturned => location_cache = table

====
